---- MODULE Spec2Model ----
(***************************************************************************)
(* A model of the medical chat agent: the appointment store and the two    *)
(* booking paths of src/appointment_agent.py (the `agent` graph with       *)
(* check_availability / create_appointment, and the `conversation` graph   *)
(* with handle_appointment), the Notifier of src/notification.py and the   *)
(* chat endpoint of src/web/main.py.                                       *)
(*                                                                         *)
(* Python strings are TLA+ strings; Python's None is the value None below. *)
(***************************************************************************)
EXTENDS Integers, Sequences, FiniteSets, TLC

VARIABLES
    program,        \* which entry point of the repository is running
    appointments,   \* committed rows of the appointments table
    nextId,         \* source of fresh ids (uuid.uuid4(), the table's generated id)
    runPc,          \* agent graph: the node each run is at
    runState,       \* agent graph: the AgentState of each run
    env,            \* os.environ entries read by the Notifier
    notifyLog,      \* what the last send_notification call did
    llmIndex,       \* FakeListChatModel.i, the index of the next canned response
    ws              \* one record per conversation loop: a WebSocket session
                    \* of the chat endpoint, or the console loop of
                    \* execute_conversation

vars == <<program, appointments, nextId, runPc, runState, env, notifyLog, llmIndex, ws>>

---------------------------------------------------------------------------
(* Bounds of the model *)

NumRuns == 2        \* concurrent invocations of the agent graph
MaxTurns == 4       \* user messages received per session
MaxCalls == 2       \* direct calls of Notifier.send_notification

Runs == 1..NumRuns
Sessions == {"ws1"}     \* conversation loops; each runs its turns on its own

---------------------------------------------------------------------------
(* Python values and string operations *)

None == "<None>"

Digits == {"0", "1", "2", "3", "4", "5", "6", "7", "8", "9"}

\* str.startswith
StartsWith(s, p) == Len(s) >= Len(p) /\ SubSeq(s, 1, Len(p)) = p

\* `sub in s`
Contains(s, sub) ==
    \E i \in 1..(Len(s) - Len(sub) + 1) : SubSeq(s, i, i + Len(sub) - 1) = sub

LowerChar(c) ==
    CASE c = "A" -> "a" [] c = "B" -> "b" [] c = "C" -> "c" [] c = "D" -> "d"
      [] c = "E" -> "e" [] c = "F" -> "f" [] c = "G" -> "g" [] c = "H" -> "h"
      [] c = "I" -> "i" [] c = "J" -> "j" [] c = "K" -> "k" [] c = "L" -> "l"
      [] c = "M" -> "m" [] c = "N" -> "n" [] c = "O" -> "o" [] c = "P" -> "p"
      [] c = "Q" -> "q" [] c = "R" -> "r" [] c = "S" -> "s" [] c = "T" -> "t"
      [] c = "U" -> "u" [] c = "V" -> "v" [] c = "W" -> "w" [] c = "X" -> "x"
      [] c = "Y" -> "y" [] c = "Z" -> "z" [] OTHER -> c

\* str.lower
RECURSIVE Lower(_)
Lower(s) ==
    IF Len(s) = 0 THEN ""
    ELSE LowerChar(SubSeq(s, 1, 1)) \o Lower(SubSeq(s, 2, Len(s)))

\* s[:n]
Prefix(s, n) == SubSeq(s, 1, IF Len(s) < n THEN Len(s) ELSE n)

\* str.strip on the whitespace the inputs use
RECURSIVE Strip(_)
Strip(s) ==
    IF Len(s) = 0 THEN s
    ELSE IF SubSeq(s, 1, 1) = " " THEN Strip(SubSeq(s, 2, Len(s)))
    ELSE IF SubSeq(s, Len(s), Len(s)) = " " THEN Strip(SubSeq(s, 1, Len(s) - 1))
    ELSE s

\* str(n) for the ids the model generates
RECURSIVE ToStr(_)
ToStr(n) ==
    IF n < 10
    THEN CASE n = 0 -> "0" [] n = 1 -> "1" [] n = 2 -> "2" [] n = 3 -> "3"
           [] n = 4 -> "4" [] n = 5 -> "5" [] n = 6 -> "6" [] n = 7 -> "7"
           [] n = 8 -> "8" [] OTHER -> "9"
    ELSE ToStr(n \div 10) \o ToStr(n % 10)

---------------------------------------------------------------------------
(* The identifier formats of the specification (section 3): what the       *)
(* claims call a valid patient id and a valid doctor id.                   *)

AllDigits(s) == \A i \in 1..Len(s) : SubSeq(s, i, i) \in Digits

MatchesPatientFormat(s) ==
    s # None /\ Len(s) = 8 /\ StartsWith(s, "PAT-") /\ AllDigits(SubSeq(s, 5, 8))

MatchesDoctorFormat(s) ==
    s # None /\ Len(s) = 6 /\ StartsWith(s, "DR-") /\ AllDigits(SubSeq(s, 4, 6))

---------------------------------------------------------------------------
(* Inputs *)

PatientIds == {None, "", "PAT-1234", "PAT-12", "demo-patient"}
DoctorIds == {"DR-456", "DR-45"}
Slots == {"2026-11-03 14:00"}

\* what the database does to one unit of work
DbOutcomes == {"ok", "connect_fail", "insert_fail", "commit_fail"}

---------------------------------------------------------------------------
(* Appointment store *)

Row(id, patient_id, doctor_id, slot, status, type) ==
    [id |-> id, patient_id |-> patient_id, doctor_id |-> doctor_id,
     slot |-> slot, status |-> status, type |-> type]

\* The table before the program starts: empty, or holding a cancelled row
InitialTables ==
    {{}, {Row(0, "PAT-0001", "DR-456", "2026-11-03 14:00", "cancelled", None)}}

\* psycopg2.connect inside get_db_connection.  On failure both except
\* branches call logger.error / logger.critical, and appointment_agent.py
\* defines no logger: the NameError replaces the psycopg2 error.
get_db_connection(outcome) ==
    IF outcome = "connect_fail"
    THEN [ok |-> FALSE, exc |-> "NameError"]
    ELSE [ok |-> TRUE, exc |-> "none"]

\* conn.autocommit = False
autocommit == FALSE

\* cur.execute of an INSERT: the row is pending in the transaction (or
\* written through, under autocommit); a failing statement raises.
ExecuteInsert(table, row, outcome) ==
    IF outcome = "insert_fail"
    THEN [committed |-> table, pending |-> {}, exc |-> "psycopg2.Error"]
    ELSE IF autocommit
    THEN [committed |-> table \cup {row}, pending |-> {}, exc |-> "none"]
    ELSE [committed |-> table, pending |-> {row}, exc |-> "none"]

\* conn.commit()
Commit(tx, outcome) ==
    IF tx.exc # "none" THEN tx
    ELSE IF outcome = "commit_fail"
    THEN [tx EXCEPT !.exc = "psycopg2.Error"]
    ELSE [committed |-> tx.committed \cup tx.pending, pending |-> {}, exc |-> "none"]

\* ConnExit without the rollback: what the block had pending is kept
ConnExit_keeps_pending(tx) ==
    [committed |-> tx.committed \cup tx.pending, pending |-> {}, exc |-> tx.exc]

\* `with conn:` __exit__ of a psycopg2 connection: roll back when the block
\* raised, commit otherwise.
ConnExit(tx) ==
    IF tx.exc # "none"
    THEN [committed |-> tx.committed, pending |-> {}, exc |-> tx.exc]
    ELSE [committed |-> tx.committed \cup tx.pending, pending |-> {}, exc |-> "none"]

\* The unit of work of create_appointment and of handle_appointment:
\* with get_db_connection() as conn: execute INSERT; conn.commit()
InsertTransaction(table, row, outcome) ==
    LET c == get_db_connection(outcome) IN
    IF ~c.ok
    THEN [committed |-> table, pending |-> {}, exc |-> c.exc]
    ELSE ConnExit(Commit(ExecuteInsert(table, row, outcome), outcome))

\* What becomes of the connection a function acquired when the function is
\* left.  No code calls conn.close() and the `with` block only ends the
\* transaction: the connection is closed when its last reference goes, at
\* the return of the function that holds it in a local.  When the function
\* raises, the traceback of the exception keeps the frame and its locals,
\* and the connection stays open for as long as the caller holds the
\* exception.
ConnAfter(acquired, raised) ==
    IF ~acquired THEN "none" ELSE IF raised THEN "open" ELSE "closed"

OpenConns(n, conn) == IF conn = "open" THEN n + 1 ELSE n

\* SELECT COUNT(*) FROM appointments
\*   WHERE doctor_id = %s AND slot = %s AND status != 'cancelled'
CountBooked(table, doctor_id, slot) ==
    Cardinality({a \in table : a.doctor_id = doctor_id /\ a.slot = slot
                               /\ a.status # "cancelled"})

---------------------------------------------------------------------------
(* The agent graph: collect_details -> check_availability ->               *)
(* confirm_booking -> create_appointment -> notify_doctor                  *)

IdleRun ==
    [patient_id |-> None, doctor_id |-> None, slot |-> None,
     available |-> None, appointment_id |-> 0,
     selects |-> 0, inserts |-> 0, failed_at |-> "none", exc |-> "none",
     open_conns |-> 0]

\* agent.invoke(state): the entry point is collect_details
Invoke(r) ==
    /\ runPc[r] = "idle"
    /\ \E p \in PatientIds \ {None, ""}, d \in DoctorIds, s \in Slots :
         runState' = [runState EXCEPT ![r] =
                        [IdleRun EXCEPT !.patient_id = p, !.doctor_id = d, !.slot = s]]
    /\ runPc' = [runPc EXCEPT ![r] = "collect_details"]
    /\ UNCHANGED <<appointments, nextId, env, notifyLog, llmIndex, ws>>

\* lambda state: state, then the edge to check_availability
collect_details(r) ==
    /\ runPc[r] = "collect_details"
    /\ runPc' = [runPc EXCEPT ![r] = "check_availability"]
    /\ UNCHANGED <<appointments, nextId, runState, env, notifyLog, llmIndex, ws>>

\* an edge that goes on to confirm_booking whatever the check returned
AvailabilityEdge_unconditional(available) == "confirm_booking"

\* the conditional edge after check_availability
AvailabilityEdge(available) == IF available THEN "confirm_booking" ELSE "END"

check_availability(r) ==
    /\ runPc[r] = "check_availability"
    /\ \E outcome \in {"ok", "connect_fail"} :
         LET c == get_db_connection(outcome)
             st == runState[r]
             available == CountBooked(appointments, st.doctor_id, st.slot) = 0
         IN IF ~c.ok
            THEN /\ runState' = [runState EXCEPT ![r].exc = c.exc,
                                                 ![r].failed_at = "connect"]
                 /\ runPc' = [runPc EXCEPT ![r] = "raised"]
            ELSE /\ runState' = [runState EXCEPT
                                      ![r].available = available,
                                      ![r].selects = @ + 1,
                                      ![r].open_conns =
                                          OpenConns(@, ConnAfter(c.ok, FALSE))]
                 /\ runPc' = [runPc EXCEPT ![r] = AvailabilityEdge(available)]
    /\ UNCHANGED <<appointments, nextId, env, notifyLog, llmIndex, ws>>

\* lambda state: state, then the edge to create_appointment
confirm_booking(r) ==
    /\ runPc[r] = "confirm_booking"
    /\ runPc' = [runPc EXCEPT ![r] = "create_appointment"]
    /\ UNCHANGED <<appointments, nextId, runState, env, notifyLog, llmIndex, ws>>

FailedAt(outcome) ==
    CASE outcome = "connect_fail" -> "connect"
      [] outcome = "insert_fail" -> "insert"
      [] outcome = "commit_fail" -> "commit"
      [] OTHER -> "none"

create_appointment(r) ==
    /\ runPc[r] = "create_appointment"
    /\ \E outcome \in DbOutcomes :
         LET st == runState[r]
             appointment_id == nextId
             row == Row(appointment_id, st.patient_id, st.doctor_id, st.slot,
                        "pending", None)
             tx == InsertTransaction(appointments, row, outcome)
             acquired == get_db_connection(outcome).ok
         IN /\ appointments' = tx.committed
            /\ nextId' = nextId + 1
            /\ IF tx.exc # "none"
               THEN /\ runState' = [runState EXCEPT
                                      ![r].appointment_id = appointment_id,
                                      ![r].exc = tx.exc,
                                      ![r].failed_at = FailedAt(outcome),
                                      ![r].inserts = IF outcome = "connect_fail"
                                                     THEN @ ELSE @ + 1,
                                      ![r].open_conns =
                                          OpenConns(@, ConnAfter(acquired, TRUE))]
                    /\ runPc' = [runPc EXCEPT ![r] = "raised"]
               ELSE /\ runState' = [runState EXCEPT
                                      ![r].appointment_id = appointment_id,
                                      ![r].inserts = @ + 1,
                                      ![r].open_conns =
                                          OpenConns(@, ConnAfter(acquired, FALSE))]
                    /\ runPc' = [runPc EXCEPT ![r] = "notify_doctor"]
    /\ UNCHANGED <<env, notifyLog, llmIndex, ws>>

\* lambda state: state, then the edge to END
notify_doctor(r) ==
    /\ runPc[r] = "notify_doctor"
    /\ runPc' = [runPc EXCEPT ![r] = "END"]
    /\ UNCHANGED <<appointments, nextId, runState, env, notifyLog, llmIndex, ws>>

AgentNext ==
    /\ program = "agent"
    /\ UNCHANGED program
    /\ \E r \in Runs :
        \/ Invoke(r)
        \/ collect_details(r)
        \/ check_availability(r)
        \/ confirm_booking(r)
        \/ create_appointment(r)
        \/ notify_doctor(r)

---------------------------------------------------------------------------
(* Notifier (src/notification.py) *)

NotifyAttempts == 3      \* @retry(stop=stop_after_attempt(3)) on send_notification
SmsAttempts == 2         \* @retry(stop=stop_after_attempt(2)) on _send_sms
EmailAttempts == 2       \* @retry(stop=stop_after_attempt(2)) on _send_email
MaxMessageLen == 500     \* len(message) > 500
PreviewLen == 100        \* content[:100] in _send_email_with_fallback

\* `$` matches at the end of the string and before a trailing newline
RegexEnds(s) ==
    {Len(s)} \cup (IF Len(s) > 0 /\ SubSeq(s, Len(s), Len(s)) = "\n"
                   THEN {Len(s) - 1} ELSE {})

\* re.match(r'^\+?[1-9]\d{1,14}$', to)
PhoneMatch(to) ==
    \E e \in RegexEnds(to) :
        LET t == SubSeq(to, 1, e)
            u == IF StartsWith(t, "+") THEN SubSeq(t, 2, Len(t)) ELSE t
        IN /\ Len(u) >= 2
           /\ Len(u) <= 15
           /\ SubSeq(u, 1, 1) \in Digits \ {"0"}
           /\ AllDigits(SubSeq(u, 2, Len(u)))

NoAt(s) == \A i \in 1..Len(s) : SubSeq(s, i, i) # "@"

\* re.match(r'^[^@]+@[^@]+\.[^@]+$', to)
EmailMatch(to) ==
    \E e \in RegexEnds(to) : \E i \in 2..e : \E j \in (i + 2)..(e - 1) :
        /\ SubSeq(to, i, i) = "@"
        /\ SubSeq(to, j, j) = "."
        /\ NoAt(SubSeq(to, 1, i - 1))
        /\ NoAt(SubSeq(to, i + 1, j - 1))
        /\ NoAt(SubSeq(to, j + 1, e))

\* Notifier.validate_contact_info; re.match on None raises TypeError
validate_contact_info(to, channel) ==
    IF to = None
    THEN [exc |-> "TypeError", value |-> FALSE]
    ELSE [exc |-> "none",
          value |-> IF channel = "sms" THEN PhoneMatch(to) ELSE EmailMatch(to)]

\* what one call of a Notifier method did: the provider calls it made, the
\* exception it raised ("none" when it returned) and the value it returned
Outcome(events, exc, result) == [events |-> events, exc |-> exc, result |-> result]

NoResult == [status |-> None, message |-> None]
SmsEvent(to, body) == [channel |-> "sms", to |-> to, subject |-> None, body |-> body]
EmailEvent(to, subject, content) ==
    [channel |-> "email", to |-> to, subject |-> subject, body |-> content]

\* a provider call under tenacity's retry: attempt k is made when the
\* attempts before it raised; after the last attempt RetryError is raised
RECURSIVE Attempts(_, _, _, _)
Attempts(event, out, k, max) ==
    IF out[k] THEN Outcome(<<event>>, "none", [status |-> "success", message |-> None])
    ELSE IF k = max THEN Outcome(<<event>>, "RetryError", NoResult)
    ELSE LET rest == Attempts(event, out, k + 1, max)
         IN Outcome(<<event>> \o rest.events, rest.exc, rest.result)

\* Notifier._send_sms
send_sms(to, body, smsOut) == Attempts(SmsEvent(to, body), smsOut, 1, SmsAttempts)

\* Notifier._send_email
send_email(to, subject, content, emailOut) ==
    Attempts(EmailEvent(to, subject, content), emailOut, 1, EmailAttempts)

\* a fallback that goes back to SMS when the email it fell back to failed
send_sms_with_fallback_resend(e, to, body, smsOut, emailOut) ==
    LET first == send_sms(to, body, smsOut)
        second == send_email(e.DOCTOR_EMAIL, "Appointment Notification", body, emailOut)
    IN IF first.exc = "none" THEN first
       ELSE IF second.exc = "none"
       THEN Outcome(first.events \o second.events, second.exc, second.result)
       ELSE Outcome(first.events \o second.events \o first.events,
                    first.exc, first.result)

\* Notifier._send_sms_with_fallback
send_sms_with_fallback(e, to, body, smsOut, emailOut) ==
    LET first == send_sms(to, body, smsOut)
        email == e.DOCTOR_EMAIL
    IN IF first.exc = "none" THEN first
       ELSE IF email # None /\ email # "" /\ validate_contact_info(email, "email").value
       THEN LET second == send_email(email, "Appointment Notification", body, emailOut)
            IN Outcome(first.events \o second.events, second.exc, second.result)
       ELSE first

\* Notifier._send_email_with_fallback
send_email_with_fallback(e, to, subject, content, smsOut, emailOut) ==
    LET first == send_email(to, subject, content, emailOut)
        phone == e.DOCTOR_PHONE
    IN IF first.exc = "none" THEN first
       ELSE IF phone # None /\ phone # "" /\ validate_contact_info(phone, "sms").value
       THEN LET second == send_sms(phone,
                                   subject \o ": " \o Prefix(content, PreviewLen) \o "...",
                                   smsOut)
            IN Outcome(first.events \o second.events, second.exc, second.result)
       ELSE first

\* The call self._send_email_with_fallback(contact_info, message) in
\* send_notification: two arguments for the parameters (to, subject,
\* content).  Python raises TypeError before the method body runs.
call_send_email_with_fallback(e, contact_info, message, smsOut, emailOut) ==
    Outcome(<<>>, "TypeError", NoResult)

\* os.getenv("PREFERRED_CHANNEL", "sms")
PreferredChannel(e) == IF e.PREFERRED_CHANNEL = None THEN "sms" ELSE e.PREFERRED_CHANNEL

\* the body of send_notification, one attempt of it
send_notification_body(e, message, smsOut, emailOut) ==
    IF message = "" \/ Len(message) > MaxMessageLen
    THEN Outcome(<<>>, "ValueError", NoResult)
    ELSE
    LET channel == PreferredChannel(e)
        contact_info == IF channel = "sms" THEN e.DOCTOR_PHONE ELSE e.DOCTOR_EMAIL
        valid == validate_contact_info(contact_info, channel)
    IN IF valid.exc # "none" THEN Outcome(<<>>, valid.exc, NoResult)
       ELSE IF ~valid.value
       THEN Outcome(<<>>, "none",
                    [status |-> "error", message |-> "Invalid contact information"])
       ELSE LET sent == IF channel = "sms"
                        THEN send_sms_with_fallback(e, contact_info, message,
                                                    smsOut, emailOut)
                        ELSE call_send_email_with_fallback(e, contact_info, message,
                                                           smsOut, emailOut)
            IN IF sent.exc # "none"
               THEN Outcome(sent.events, "none",
                            [status |-> "error",
                             message |-> "Notification delivery failed"])
               ELSE sent

\* Notifier.send_notification under its @retry: the body runs again while it
\* raises, NotifyAttempts times at most, and then RetryError is raised.
\* `bodies` counts the runs of the body.
RECURSIVE send_notification_from(_, _, _, _, _)
send_notification_from(k, e, message, smsOut, emailOut) ==
    LET once == send_notification_body(e, message, smsOut, emailOut)
    IN IF once.exc = "none"
       THEN [events |-> once.events, exc |-> "none", result |-> once.result,
             bodies |-> 1, cause |-> "none"]
       ELSE IF k = NotifyAttempts
       THEN [events |-> once.events, exc |-> "RetryError", result |-> NoResult,
             bodies |-> 1, cause |-> once.exc]
       ELSE LET rest == send_notification_from(k + 1, e, message, smsOut, emailOut)
            IN [rest EXCEPT !.events = once.events \o @, !.bodies = @ + 1]

send_notification(e, message, smsOut, emailOut) ==
    send_notification_from(1, e, message, smsOut, emailOut)

\* Inputs of the Notifier
Channels == {None, "sms", "email"}
Phones == {None, "+15551234567", "555-1234"}
Emails == {None, "dr@clinic.org", "dr.clinic.org"}
Envs == [PREFERRED_CHANNEL : Channels, DOCTOR_PHONE : Phones, DOCTOR_EMAIL : Emails]

RECURSIVE Repeat(_, _)
Repeat(c, n) ==
    IF n = 0 THEN ""
    ELSE LET half == Repeat(c, n \div 2)
         IN half \o half \o (IF n % 2 = 1 THEN c ELSE "")

Messages ==
    {"", "New appointment booked for PAT-123",
     Repeat("x", MaxMessageLen), Repeat("x", MaxMessageLen + 1)}

SmsOutcomes == [1..SmsAttempts -> BOOLEAN]
EmailOutcomes == [1..EmailAttempts -> BOOLEAN]

NoCall ==
    [n |-> 0, message |-> None, smsOut |-> [k \in 1..SmsAttempts |-> TRUE],
     emailOut |-> [k \in 1..EmailAttempts |-> TRUE],
     events |-> <<>>, exc |-> "none", result |-> NoResult, bodies |-> 0,
     cause |-> "none"]

\* what notifyLog holds after a call of send_notification
Called(log, message, smsOut, emailOut) ==
    LET r == send_notification(env, message, smsOut, emailOut)
    IN [n |-> log.n + 1, message |-> message, smsOut |-> smsOut,
        emailOut |-> emailOut, events |-> r.events, exc |-> r.exc,
        result |-> r.result, bodies |-> r.bodies, cause |-> r.cause]

\* notifier.send_notification(doctor_id="DR-456", message=...), called directly
Notify ==
    /\ notifyLog.n < MaxCalls
    /\ \E message \in Messages, smsOut \in SmsOutcomes, emailOut \in EmailOutcomes :
         notifyLog' = Called(notifyLog, message, smsOut, emailOut)
    /\ UNCHANGED <<appointments, nextId, runPc, runState, env, llmIndex, ws>>

NotifierNext ==
    /\ program = "notifier"
    /\ UNCHANGED program
    /\ Notify

---------------------------------------------------------------------------
(* The conversation graph: retrieve -> generate -> book_appointment        *)

\* test_responses, the canned replies of FakeListChatModel
test_responses ==
    <<"How can I help with your appointment today?",
      "Please provide your patient ID",
      "What type of appointment do you need?",
      "Appointment booked for tomorrow at 2 PM">>

\* FakeListChatModel: the response at index i, then i advances cyclically
NextLlmIndex(i) == IF i < Len(test_responses) - 1 THEN i + 1 ELSE 0

HumanMessage(content) == [role |-> "human", content |-> content]
AIMessage(content) == [role |-> "ai", content |-> content]

Last(seq) == seq[Len(seq)]

\* the conditional edge after generate
GenerateEdge(messages) ==
    IF Contains(Lower(Last(messages).content), "book") THEN "book_appointment" ELSE "END"

valid_types == {"checkup", "consultation", "follow-up", "emergency"}

\* ', '.join(valid_types): a set is joined in an arbitrary order
TypeJoins ==
    {"checkup, consultation, follow-up, emergency",
     "emergency, follow-up, consultation, checkup"}

\* the patient id check of handle_appointment:
\* not (not state.get('patient_id') or not state['patient_id'].startswith("PAT-"))
PatientIdAccepted(patient_id) ==
    ~(patient_id = None \/ patient_id = "" \/ ~StartsWith(patient_id, "PAT-"))

\* the two validations at the head of handle_appointment: the reply they
\* return, or None when both pass
AppointmentRejection(patient_id, appointment_type, joined) ==
    IF ~PatientIdAccepted(patient_id)
    THEN "Invalid patient ID format. Must start with PAT-"
    ELSE IF appointment_type \notin valid_types
    THEN "Invalid appointment type. Choose from: " \o joined
    ELSE None

\* str(e) of the psycopg2.Error a failing statement or commit raises
DbErrorText(outcome) ==
    IF outcome = "insert_fail"
    THEN "null value in column \"slot\" violates not-null constraint"
    ELSE "server closed the connection unexpectedly"

\* handle_appointment once the validations passed: the insert and the reply.
\* The row's scheduled_time is not set by the INSERT and comes back NULL.
BookingReply(tx, id, outcome) ==
    IF tx.exc = "none"
    THEN "Appointment " \o ToStr(id) \o " booked for " \o "None"
    ELSE "Booking failed: " \o DbErrorText(outcome)

AppointmentTypes == {None, "checkup", "surgery"}
UserInputs == {"", "  ", "I need a checkup"}

---------------------------------------------------------------------------
(* The chat endpoint (src/web/main.py, websocket_endpoint)                 *)

IdleSession ==
    [pc |-> "receive", turns |-> 0, user_input |-> "", messages |-> <<>>,
     patient_id |-> None, appointment_type |-> None, context |-> None,
     sent |-> <<>>, response |-> None, id_check |-> "none", booking |-> "none",
     failed_at |-> "none", appointment_id |-> 0,
     notified |-> 0, exc |-> "none", close_code |-> 0, open_conns |-> 0,
     history |-> <<>>, notified_doctor |-> None]

\* handle_message is imported by web/main.py and defined nowhere in the
\* sources.  It is taken from the specification (4.6): the turn's message
\* enters the conversation graph with the identifiers the conversation has
\* collected (3: optional, set once known), and the final reply text is the
\* response.  The state the endpoint passes carries patient_id
\* "demo-patient" and no appointment type.
handle_message_state(web_state, patient_id, appointment_type) ==
    [messages |-> <<HumanMessage(web_state.messages[1].content)>>,
     patient_id |-> patient_id, appointment_type |-> appointment_type]

handle_message_response(messages) == [response |-> Last(messages).content]

\* state = {"messages": [{"content": user_input}], "patient_id": "demo-patient"}
WebState(user_input) ==
    [messages |-> <<[content |-> user_input]>>, patient_id |-> "demo-patient"]

\* the inner `except Exception`: send the apology and re-raise; the outer
\* `except Exception`: websocket.close(code=1011) and re-raise
ChatError(w, exc) ==
    [w EXCEPT !.sent = Append(@, "Sorry, we encountered an error"),
              !.exc = exc, !.close_code = 1011, !.pc = "closed"]

\* An exception that leaves the conversation graph: the chat endpoint
\* handles it as above; execute_conversation catches nothing and ends.
Raise(w, exc) ==
    IF program = "web" THEN ChatError(w, exc)
    ELSE [w EXCEPT !.exc = exc, !.pc = "closed"]

\* the check with the strip left out: a message of blanks passes it
EmptyMessage_unstripped(user_input) == user_input = ""

\* if not user_input.strip()
EmptyMessage(user_input) == Strip(user_input) = ""

\* user_input = await websocket.receive_text(), the empty-message check and,
\* for a message that passes it, the entry into handle_message
Receive(s) ==
    /\ ws[s].pc = "receive"
    /\ ws[s].turns < MaxTurns
    /\ \E user_input \in UserInputs, patient_id \in PatientIds,
          appointment_type \in AppointmentTypes :
         LET w == [IdleSession EXCEPT !.turns = ws[s].turns + 1,
                                      !.user_input = user_input,
                                      !.open_conns = ws[s].open_conns]
             st == handle_message_state(WebState(user_input), patient_id,
                                        appointment_type)
         IN IF EmptyMessage(user_input)
            THEN ws' = [ws EXCEPT ![s] =
                          [w EXCEPT !.sent = <<"Error: " \o "Empty message">>,
                                    !.exc = "HTTPException"]]
            ELSE ws' = [ws EXCEPT ![s] =
                          [w EXCEPT !.pc = "retrieve", !.messages = st.messages,
                                    !.patient_id = st.patient_id,
                                    !.appointment_type = st.appointment_type]]
    /\ UNCHANGED <<appointments, nextId, runPc, runState, env, notifyLog, llmIndex>>

\* receive_text raises WebSocketDisconnect when the client goes away
Disconnect(s) ==
    /\ ws[s].pc = "receive"
    /\ ws' = [ws EXCEPT ![s].pc = "closed", ![s].exc = "WebSocketDisconnect"]
    /\ UNCHANGED <<appointments, nextId, runPc, runState, env, notifyLog, llmIndex>>

\* retrieve_docs: clinic_retriever.invoke(last_message), which may raise
retrieve(s) ==
    /\ ws[s].pc = "retrieve"
    /\ \E ok \in BOOLEAN :
         IF ok
         THEN ws' = [ws EXCEPT ![s].context = "docs", ![s].pc = "generate"]
         ELSE ws' = [ws EXCEPT ![s] = Raise(ws[s], "RetrieverError")]
    /\ UNCHANGED <<appointments, nextId, runPc, runState, env, notifyLog, llmIndex>>

\* generate_response and the conditional edge after it
generate(s) ==
    /\ ws[s].pc = "generate"
    /\ LET messages == Append(ws[s].messages, AIMessage(test_responses[llmIndex + 1]))
       IN ws' = [ws EXCEPT ![s].messages = messages,
                           ![s].pc = IF GenerateEdge(messages) = "END"
                                     THEN "respond" ELSE "book_appointment"]
    /\ llmIndex' = NextLlmIndex(llmIndex)
    /\ UNCHANGED <<appointments, nextId, runPc, runState, env, notifyLog>>

\* handle_appointment
book_appointment(s) ==
    /\ ws[s].pc = "book_appointment"
    /\ \E joined \in TypeJoins, outcome \in DbOutcomes :
         LET w == ws[s]
             rejection == AppointmentRejection(w.patient_id, w.appointment_type, joined)
             id == nextId
             row == Row(id, w.patient_id, None, None, "scheduled", w.appointment_type)
             tx == InsertTransaction(appointments, row, outcome)
             \* psycopg2.Error is caught inside handle_appointment, which then
             \* returns; any other exception leaves it
             acquired == get_db_connection(outcome).ok
             leaves == tx.exc \notin {"none", "psycopg2.Error"}
             checked == [w EXCEPT !.id_check = IF PatientIdAccepted(w.patient_id)
                                               THEN "accepted" ELSE "rejected",
                                  !.open_conns =
                                      IF rejection # None THEN @
                                      ELSE OpenConns(@, ConnAfter(acquired, leaves))]
         IN IF rejection # None
            THEN /\ ws' = [ws EXCEPT ![s] =
                              [checked EXCEPT !.messages = Append(@, AIMessage(rejection)),
                                              !.booking = "rejected",
                                              !.pc = "respond"]]
                 /\ UNCHANGED <<appointments, nextId>>
            ELSE /\ appointments' = tx.committed
                 /\ nextId' = nextId + 1
                 /\ IF tx.exc \in {"none", "psycopg2.Error"}
                    THEN ws' = [ws EXCEPT ![s] =
                                  [checked EXCEPT
                                     !.messages =
                                         Append(@, AIMessage(BookingReply(tx, id, outcome))),
                                     !.booking = IF tx.exc = "none" THEN "committed"
                                                 ELSE "failed",
                                     !.failed_at = FailedAt(outcome),
                                     !.appointment_id = id,
                                     !.pc = "respond"]]
                    ELSE ws' = [ws EXCEPT ![s] =
                                  Raise([checked EXCEPT
                                               !.booking = "failed",
                                               !.failed_at = FailedAt(outcome),
                                               !.appointment_id = id],
                                        tx.exc)]
    /\ UNCHANGED <<runPc, runState, env, notifyLog, llmIndex>>

\* if "book" in response["response"].lower()
ShouldNotify(response) == Contains(Lower(response), "book")

\* response = handle_message(state); await websocket.send_text(...)
respond(s) ==
    /\ ws[s].pc = "respond"
    /\ LET response == handle_message_response(ws[s].messages).response
       IN ws' = [ws EXCEPT ![s].response = response,
                           ![s].sent = Append(@, response),
                           ![s].pc = IF ShouldNotify(response) THEN "notify"
                                     ELSE "receive"]
    /\ UNCHANGED <<appointments, nextId, runPc, runState, env, notifyLog, llmIndex>>

InputPreviewLen == 100   \* user_input[:100]

\* f"New appointment request: {user_input[:100]}"
NotificationMessage(user_input) ==
    "New appointment request: " \o Prefix(user_input, InputPreviewLen)

\* notifier.send_notification(doctor_id="demo-doctor", message=...)
notify(s) ==
    /\ ws[s].pc = "notify"
    /\ \E smsOut \in SmsOutcomes, emailOut \in EmailOutcomes :
         LET log == Called(notifyLog, NotificationMessage(ws[s].user_input),
                           smsOut, emailOut)
             w == [ws[s] EXCEPT !.notified = @ + 1,
                                !.notified_doctor = "demo-doctor"]
         IN /\ notifyLog' = log
            /\ IF log.exc = "none"
               THEN ws' = [ws EXCEPT ![s] = [w EXCEPT !.pc = "receive"]]
               ELSE ws' = [ws EXCEPT ![s] = ChatError(w, log.exc)]
    /\ UNCHANGED <<appointments, nextId, runPc, runState, env, llmIndex>>

ChatNext ==
    /\ program = "web"
    /\ UNCHANGED program
    /\ \E s \in Sessions :
        \/ Receive(s)
        \/ Disconnect(s)
        \/ retrieve(s)
        \/ generate(s)
        \/ book_appointment(s)
        \/ respond(s)
        \/ notify(s)

---------------------------------------------------------------------------
(* The console loop (src/appointment_agent.py, execute_conversation)       *)

\* {**state, "messages": [HumanMessage(content=user_input)]}: the "messages"
\* key written after the spread replaces the one that came from state
InvokeInput(state_messages, user_input) == <<HumanMessage(user_input)>>

\* conversation.invoke(input): the graph is compiled without a checkpointer,
\* so the messages channel starts empty and the reducer (operator.add) adds
\* the input's messages to it
GraphEntry(input_messages) == <<>> \o input_messages

\* user_input = input("Patient: ") and the entry into conversation.invoke.
\* state starts as {"messages": []}: it carries no patient_id and no
\* appointment_type.
Input(s) ==
    /\ ws[s].pc = "receive"
    /\ ws[s].turns < MaxTurns
    /\ \E user_input \in UserInputs :
         ws' = [ws EXCEPT ![s] =
                  [IdleSession EXCEPT
                     !.turns = ws[s].turns + 1,
                     !.user_input = user_input,
                     !.history = ws[s].history,
                     !.messages = GraphEntry(InvokeInput(ws[s].messages, user_input)),
                     !.pc = "retrieve"]]
    /\ UNCHANGED <<appointments, nextId, runPc, runState, env, notifyLog, llmIndex>>

\* state = conversation.invoke(...); print("Assistant:", state['messages'][-1].content)
\* history records, in order, every message of the turns completed so far
print_reply(s) ==
    /\ ws[s].pc = "respond"
    /\ LET response == Last(ws[s].messages).content
       IN ws' = [ws EXCEPT ![s].response = response,
                           ![s].sent = Append(@, response),
                           ![s].history = @ \o ws[s].messages,
                           ![s].pc = "receive"]
    /\ UNCHANGED <<appointments, nextId, runPc, runState, env, notifyLog, llmIndex>>

CliNext ==
    /\ program = "cli"
    /\ UNCHANGED program
    /\ \E s \in Sessions :
        \/ Input(s)
        \/ retrieve(s)
        \/ generate(s)
        \/ book_appointment(s)
        \/ print_reply(s)

---------------------------------------------------------------------------
(* Initial states and specifications.  The repository has four entry       *)
(* points that share no process: callers of the compiled agent graph,      *)
(* callers of the Notifier (notification.py run as a script), the web      *)
(* application, whose endpoint drives the conversation graph and the       *)
(* Notifier, and the console loop of appointment_agent.py run as a script. *)

DefaultEnv == [PREFERRED_CHANNEL |-> None, DOCTOR_PHONE |-> None, DOCTOR_EMAIL |-> None]

InitStore ==
    /\ appointments \in InitialTables
    /\ nextId = 1

InitRuns ==
    /\ runPc = [r \in Runs |-> "idle"]
    /\ runState = [r \in Runs |-> IdleRun]

InitSessions ==
    /\ llmIndex = 0
    /\ ws = [s \in Sessions |-> IdleSession]

AgentInit ==
    /\ program = "agent"
    /\ InitStore
    /\ InitRuns
    /\ InitSessions
    /\ env = DefaultEnv
    /\ notifyLog = NoCall

NotifierInit ==
    /\ program = "notifier"
    /\ appointments = {}
    /\ nextId = 1
    /\ InitRuns
    /\ InitSessions
    /\ env \in Envs
    /\ notifyLog = NoCall

ChatInit ==
    /\ program = "web"
    /\ InitStore
    /\ InitRuns
    /\ InitSessions
    /\ env \in Envs
    /\ notifyLog = NoCall

CliInit ==
    /\ program = "cli"
    /\ InitStore
    /\ InitRuns
    /\ InitSessions
    /\ env = DefaultEnv
    /\ notifyLog = NoCall

Init == AgentInit \/ NotifierInit \/ ChatInit \/ CliInit

Next == AgentNext \/ NotifierNext \/ ChatNext \/ CliNext

Spec == Init /\ [][Next]_vars

\* each entry point on its own
AgentSpec == AgentInit /\ [][AgentNext]_vars
NotifierSpec == NotifierInit /\ [][NotifierNext]_vars
ChatSpec == ChatInit /\ [][ChatNext]_vars
CliSpec == CliInit /\ [][CliNext]_vars

---------------------------------------------------------------------------
(* Properties *)

Booked(a) == a.status # "cancelled"

\* C1: in every reachable store state there is at most one non-cancelled
\* appointment per (doctor_id, slot), however the booking runs interleave.
C1_NoDoubleBooking ==
    \A a, b \in appointments :
        (/\ a.doctor_id # None
         /\ a.doctor_id = b.doctor_id
         /\ a.slot = b.slot
         /\ Booked(a)
         /\ Booked(b)) => a.id = b.id

\* C2: a booking run whose patient_id does not match PAT-dddd or whose
\* doctor_id does not match DR-ddd executes no store operation: no
\* availability SELECT and no INSERT in the agent graph, no INSERT in
\* the conversation graph (whose state carries no doctor id).
C2_ValidationGate ==
    /\ \A r \in Runs :
         (/\ runPc[r] # "idle"
          /\ ~(MatchesPatientFormat(runState[r].patient_id)
               /\ MatchesDoctorFormat(runState[r].doctor_id)))
         => (runState[r].selects = 0 /\ runState[r].inserts = 0)
    /\ \A s \in Sessions :
         (ws[s].booking # "none" /\ ~MatchesPatientFormat(ws[s].patient_id))
         => (ws[s].booking = "rejected" /\ ws[s].notified = 0)

\* C3: the identifier check before a booking accepts exactly the pairs in
\* which patient_id is PAT- and 4 digits and doctor_id is DR- and 3 digits.
\* The state handle_appointment checks carries no doctor id (None).
C3_IdCheckExact ==
    \A s \in Sessions :
        ws[s].id_check # "none" =>
            (ws[s].id_check = "accepted"
             <=> (MatchesPatientFormat(ws[s].patient_id) /\ MatchesDoctorFormat(None)))

\* C3, the patient half alone: an accepted patient_id has the PAT-dddd format.
C3_PatientIdExact ==
    \A s \in Sessions :
        ws[s].id_check = "accepted" => MatchesPatientFormat(ws[s].patient_id)

\* C4: send_notification is called in a turn only when the turn's booking
\* committed an appointment row.
C4_NotifyOnlyAfterSuccess ==
    \A s \in Sessions : ws[s].notified > 0 => ws[s].booking = "committed"

NotificationFailed ==
    notifyLog.exc # "none" \/ notifyLog.result.status = "error"

\* C5: when the notification of a turn fails, the committed appointment
\* stays in the store, the user has been sent the turn's reply and nothing
\* else, and the endpoint does not close the session: it goes on to
\* receive the next message (until the client disconnects).
C5_NotificationFailureHarmless ==
    \A s \in Sessions :
        (ws[s].notified > 0 /\ NotificationFailed) =>
            /\ ws[s].close_code = 0
            /\ ws[s].exc \in {"none", "WebSocketDisconnect"}
            /\ ws[s].sent = <<ws[s].response>>
            /\ (ws[s].booking = "committed"
                => \E a \in appointments : a.id = ws[s].appointment_id)

ValidMessage(m) == m # "" /\ Len(m) <= MaxMessageLen
ContactOf(e, channel) == IF channel = "sms" THEN e.DOCTOR_PHONE ELSE e.DOCTOR_EMAIL
ValidContact(e, channel) ==
    ContactOf(e, channel) # None
    /\ validate_contact_info(ContactOf(e, channel), channel).value
OtherChannel(channel) == IF channel = "sms" THEN "email" ELSE "sms"
AllFail(out) == \A k \in DOMAIN out : ~out[k]
ProviderOut(log, channel) == IF channel = "sms" THEN log.smsOut ELSE log.emailOut
SendsOn(log, channel) == {k \in 1..Len(log.events) : log.events[k].channel = channel}

\* C6: for either preferred channel, when every attempt of the primary
\* channel fails and the other channel's contact info is valid, the other
\* channel's send is invoked; when that fails too, send_notification
\* returns an error result and raises nothing.
C6_Fallback ==
    LET primary == PreferredChannel(env)
        other == OtherChannel(primary)
    IN (/\ notifyLog.n > 0
        /\ ValidMessage(notifyLog.message)
        /\ ValidContact(env, primary)
        /\ ValidContact(env, other)
        /\ AllFail(ProviderOut(notifyLog, primary)))
       => /\ SendsOn(notifyLog, other) # {}
          /\ AllFail(ProviderOut(notifyLog, other))
             => (notifyLog.exc = "none" /\ notifyLog.result.status = "error")

\* C7: with valid contact info and a valid message, the first delivery
\* attempt of send_notification is on the preferred channel.
C7_PreferredFirst ==
    (/\ notifyLog.n > 0
     /\ ValidMessage(notifyLog.message)
     /\ ValidContact(env, PreferredChannel(env)))
    => /\ notifyLog.events # <<>>
       /\ notifyLog.events[1].channel = PreferredChannel(env)

\* C8: an empty or over-long message is rejected once, as an invalid
\* message: the body of send_notification runs once and no send is made.
C8_InvalidMessageOnce ==
    (notifyLog.n > 0 /\ ~ValidMessage(notifyLog.message))
    => /\ notifyLog.bodies = 1
       /\ notifyLog.events = <<>>

\* C9: when the preferred channel's contact info is invalid or absent,
\* send_notification returns the invalid-contact result and makes no send.
C9_InvalidContactFailsFast ==
    (/\ notifyLog.n > 0
     /\ ValidMessage(notifyLog.message)
     /\ ~ValidContact(env, PreferredChannel(env)))
    => /\ notifyLog.events = <<>>
       /\ notifyLog.exc = "none"
       /\ notifyLog.result = [status |-> "error",
                              message |-> "Invalid contact information"]

\* C10: a booking attempt that failed after its connection was acquired,
\* in the INSERT or in the commit, has left no row in the store.
C10_FailedBookingLeavesNoRow ==
    /\ \A r \in Runs :
         runState[r].failed_at \in {"insert", "commit"}
         => ~\E a \in appointments : a.id = runState[r].appointment_id
    /\ \A s \in Sessions :
         ws[s].failed_at \in {"insert", "commit"}
         => ~\E a \in appointments : a.id = ws[s].appointment_id

\* C11: no finished store operation (check_availability, create_appointment,
\* the insert of handle_appointment), succeeded or failed, still holds an
\* open connection.
C11_ConnectionsReleased ==
    /\ \A r \in Runs : runState[r].open_conns = 0
    /\ \A s \in Sessions : ws[s].open_conns = 0

IsPrefix(p, q) == Len(p) <= Len(q) /\ SubSeq(q, 1, Len(p)) = p

\* C12: the messages a turn starts from hold, in order, every user message
\* and assistant reply of the turns completed before it, followed by the
\* turn's own messages.
C12_HistoryPersists ==
    \A s \in Sessions :
        ws[s].pc \in {"retrieve", "generate", "book_appointment", "respond"}
        => IsPrefix(ws[s].history, ws[s].messages)

Blank(u) == \A i \in 1..Len(u) : SubSeq(u, i, i) = " "

\* C13: a received message that is empty or all whitespace is answered with
\* the empty-input error alone; the workflow is not entered, no message is
\* added to the conversation, the store and the Notifier are not touched,
\* and the session goes on to read the next message.
C13_EmptyInputRejected ==
    [][\A s \in Sessions :
         (ws[s].pc = "receive" /\ ws'[s].turns = ws[s].turns + 1
            /\ Blank(ws'[s].user_input))
         => /\ ws'[s].sent = <<"Error: Empty message">>
            /\ ws'[s].pc = "receive"
            /\ ws'[s].close_code = 0
            /\ ws'[s].messages = <<>>
            /\ ws'[s].history = ws[s].history
            /\ ws'[s].notified = 0
            /\ UNCHANGED <<appointments, nextId, notifyLog, llmIndex>>]_vars

\* C13 witness: a turn whose message was blanks, not the empty string, has
\* been rejected and the session is reading again
C13_Witness ==
    \E s \in Sessions :
        /\ ws[s].pc = "receive" /\ ws[s].turns > 0
        /\ ws[s].user_input # "" /\ Blank(ws[s].user_input)
        /\ ws[s].sent = <<"Error: Empty message">>

\* C14: each user message read on a session is answered by exactly one
\* reply on that session before the next message is read, whatever the
\* outcome of the turn (sent holds the replies of the current turn).
C14_OneReplyPerMessage ==
    \A s \in Sessions :
        /\ Len(ws[s].sent) <= 1
        /\ (ws[s].pc = "receive" /\ ws[s].turns > 0) => Len(ws[s].sent) = 1

\* C15: no reply sent to the user contains the text of an exception (here
\* the str(e) of a database error); errors reach the user only as fixed
\* plain-language messages.
C15_NoRawExceptionText ==
    \A s \in Sessions : \A i \in 1..Len(ws[s].sent) :
        \A outcome \in {"insert_fail", "commit_fail"} :
            ~Contains(ws[s].sent[i], DbErrorText(outcome))

\* C16: a failing retriever never aborts a turn: the turn goes on with an
\* empty context and ends in a reply.
C16_RetrievalBestEffort ==
    \A s \in Sessions :
        ws[s].exc # "RetrieverError"

\* C17: when a turn that committed a booking is over, the table holds
\* exactly one row with the new appointment id, its status is 'pending', the
\* reply names the id, and the Notifier was called exactly once, for the
\* doctor of that row.
C17_BookingEndState ==
    \A s \in Sessions :
        (ws[s].booking = "committed" /\ ws[s].pc \in {"receive", "closed"})
        => /\ Cardinality({a \in appointments :
                             a.id = ws[s].appointment_id}) = 1
           /\ \A a \in appointments :
                 a.id = ws[s].appointment_id
                 => a.status = "pending" /\ a.doctor_id = ws[s].notified_doctor
           /\ Contains(ws[s].response, ToStr(ws[s].appointment_id))
           /\ ws[s].notified = 1

\* the provider calls of the last send_notification call made on a channel
ChannelSends(channel) ==
    {i \in 1..Len(notifyLog.events) : notifyLog.events[i].channel = channel}

\* C18: a send_notification call is over after a bounded number of provider
\* calls: at most SmsAttempts on SMS and EmailAttempts on email, at most 4
\* in all; the call changes channel at most once and never returns to the
\* first; the outer retry runs the body at most NotifyAttempts times and
\* only repeats a body that made no provider call.
C18_BoundedSends ==
    /\ Cardinality(ChannelSends("sms")) <= SmsAttempts
    /\ Cardinality(ChannelSends("email")) <= EmailAttempts
    /\ Len(notifyLog.events) <= 4
    /\ \A i, j \in 1..Len(notifyLog.events) :
          (i < j /\ notifyLog.events[i].channel = notifyLog.events[j].channel)
          => \A k \in i..j : notifyLog.events[k].channel = notifyLog.events[i].channel
    /\ notifyLog.bodies <= NotifyAttempts
    /\ notifyLog.bodies > 1 => notifyLog.events = <<>>

\* C18 witness: a call in which every provider call failed: two on SMS, then
\* the fallback's two on email
C18_Witness ==
    /\ notifyLog.n > 0
    /\ Len(notifyLog.events) = 4
    /\ notifyLog.result.status = "error"

\* C19: a connection attempt that fails is retried and so does not end
\* the run; an INSERT that fails is not executed again.
C19_ConnectRetried ==
    \A r \in Runs :
        /\ runPc[r] = "raised" => runState[r].failed_at # "connect"
        /\ runState[r].inserts <= 1

\* C20: within a run, confirm_booking and create_appointment are reached
\* only after the run's check_availability returned available; a run whose
\* check returned unavailable is at END at once, has inserted nothing and
\* never reaches notify_doctor; notify_doctor is reached only with the
\* run's row committed.
C20_WorkflowOrder ==
    \A r \in Runs :
        LET st == runState[r]
        IN /\ (runPc[r] \in {"confirm_booking", "create_appointment", "notify_doctor"}
                  \/ st.inserts > 0)
               => st.selects = 1 /\ st.available = TRUE
           /\ (st.selects > 0 /\ st.available = FALSE)
               => runPc[r] = "END" /\ st.inserts = 0
                  /\ ~\E a \in appointments :
                        a.id # 0 /\ a.id = st.appointment_id
           /\ runPc[r] = "notify_doctor"
               => Row(st.appointment_id, st.patient_id, st.doctor_id, st.slot,
                      "pending", None) \in appointments

\* C20 witness: one run is at notify_doctor with its row committed, and a
\* later run that asked for the same doctor and slot ended unavailable
C20_Witness ==
    \E r1, r2 \in Runs :
        /\ runPc[r1] = "notify_doctor"
        /\ runState[r1].inserts = 1
        /\ runPc[r2] = "END"
        /\ runState[r2].selects = 1 /\ runState[r2].available = FALSE
        /\ runState[r2].doctor_id = runState[r1].doctor_id

\* The routing half of C21, step by step: generate runs after retrieve; its
\* step enters book_appointment exactly when the draft it produced contains
\* 'book' in any letter case, and otherwise ends the graph; only
\* book_appointment touches the store; a turn that did not book gives the
\* draft as its output.
C21_Routing ==
    [][\A s \in Sessions :
         /\ ws[s].pc = "generate"
              => LET draft == Last(ws'[s].messages).content
                 IN /\ ws[s].context # None
                    /\ Len(ws'[s].messages) = Len(ws[s].messages) + 1
                    /\ (ws'[s].pc = "book_appointment")
                          <=> Contains(Lower(draft), "book")
                    /\ ws'[s].pc \in {"book_appointment", "respond"}
         /\ ws[s].pc # "book_appointment" => UNCHANGED <<appointments, nextId>>
         /\ (ws[s].pc = "respond" /\ ws[s].booking = "none")
              => /\ ws'[s].response = ws[s].messages[2].content
                 /\ ~Contains(Lower(ws'[s].response), "book")]_vars

\* a turn that is over has run retrieve and generate
C21_TurnRanBoth ==
    \A s \in Sessions :
        (ws[s].turns > 0 /\ ws[s].pc \in {"receive", "closed"})
        => ws[s].context # None /\ Len(ws[s].messages) >= 2

\* C21: every turn runs retrieve and then generate; the booking step is
\* entered if and only if the draft reply contains 'book' (in any letter
\* case); otherwise the turn ends with the draft as its output and without a
\* store operation.
C21_WorkflowRouting == C21_Routing /\ []C21_TurnRanBoth

\* C10 witness: an attempt whose INSERT ran and whose commit then failed
C10_Witness ==
    \/ \E r \in Runs : runPc[r] = "raised" /\ runState[r].failed_at = "commit"
    \/ \E s \in Sessions : ws[s].pc = "respond" /\ ws[s].failed_at = "commit"

====
